---- MODULE Spec2Model ----
(***************************************************************************)
(* A model of src/virtuals.py: the quantity parsers, the rating chains,    *)
(* the change detector, the narrative retry loop, the change logger, the   *)
(* market summary with its status, and the monitoring loop.                *)
(*                                                                         *)
(* Texts are sequences of one-character strings, so that strip, lower,     *)
(* replace, endswith, split and the substring test act on characters as    *)
(* they do in Python.  A float is an exact decimal [num, den] (den a power *)
(* of ten, den = 0 for "float() raised ValueError"); the texts of the      *)
(* model are plain decimals, the only shape the page produces, so nan,     *)
(* inf, exponents and digit underscores are outside the model.             *)
(***************************************************************************)
EXTENDS Integers, Sequences, FiniteSets, TLC

(***************************************************************************)
(* Characters and Python's str methods                                     *)
(***************************************************************************)
Digits == <<"0", "1", "2", "3", "4", "5", "6", "7", "8", "9">>

UpperCase == <<"A", "B", "C", "D", "E", "F", "G", "H", "I", "J", "K", "L", "M",
               "N", "O", "P", "Q", "R", "S", "T", "U", "V", "W", "X", "Y", "Z">>

LowerCase == <<"a", "b", "c", "d", "e", "f", "g", "h", "i", "j", "k", "l", "m",
               "n", "o", "p", "q", "r", "s", "t", "u", "v", "w", "x", "y", "z">>

Whitespace == {" "}

IsDigit(c) == \E i \in 1..Len(Digits) : Digits[i] = c

DigitVal(c) == (CHOOSE i \in 1..Len(Digits) : Digits[i] = c) - 1

\* str.lower() on one character
LowerChar(c) ==
    IF \E i \in 1..Len(UpperCase) : UpperCase[i] = c
    THEN LowerCase[CHOOSE i \in 1..Len(UpperCase) : UpperCase[i] = c]
    ELSE c

\* str.lower()
lower(s) == [i \in 1..Len(s) |-> LowerChar(s[i])]

RECURSIVE lstrip(_)
lstrip(s) ==
    IF s # <<>> /\ Head(s) \in Whitespace THEN lstrip(Tail(s)) ELSE s

RECURSIVE rstrip(_)
rstrip(s) ==
    IF s # <<>> /\ s[Len(s)] \in Whitespace
    THEN rstrip(SubSeq(s, 1, Len(s) - 1))
    ELSE s

\* str.strip()
strip(s) == rstrip(lstrip(s))

\* str.endswith(suffix)
endswith(s, suffix) ==
    /\ Len(s) >= Len(suffix)
    /\ SubSeq(s, Len(s) - Len(suffix) + 1, Len(s)) = suffix

\* the test `sub in s` on two strings
Contains(s, sub) ==
    \E i \in 1..(Len(s) - Len(sub) + 1) : SubSeq(s, i, i + Len(sub) - 1) = sub

\* str.replace(old, new) for a one-character old
RECURSIVE replace(_, _, _)
replace(s, old, new) ==
    IF s = <<>> THEN <<>>
    ELSE (IF Head(s) = old THEN new ELSE <<Head(s)>>) \o replace(Tail(s), old, new)

\* str.split()[0] of a text that holds a non-blank character: its first token
RECURSIVE TakeToken(_)
TakeToken(s) ==
    IF s = <<>> \/ Head(s) \in Whitespace THEN <<>>
    ELSE <<Head(s)>> \o TakeToken(Tail(s))

FirstToken(s) == TakeToken(lstrip(s))

(***************************************************************************)
(* Python's int() and float() on a text                                    *)
(***************************************************************************)
AllDigits(s) == \A i \in 1..Len(s) : IsDigit(s[i])

RECURSIVE DigitsToInt(_)
DigitsToInt(s) ==
    IF s = <<>> THEN 0
    ELSE 10 * DigitsToInt(SubSeq(s, 1, Len(s) - 1)) + DigitVal(s[Len(s)])

RECURSIVE Pow10(_)
Pow10(n) == IF n = 0 THEN 1 ELSE 10 * Pow10(n - 1)

Signs == {"+", "-"}

Unsigned(s) == IF s # <<>> /\ Head(s) \in Signs THEN Tail(s) ELSE s

SignOf(s) == IF s # <<>> /\ Head(s) = "-" THEN -1 ELSE 1

\* int(text): [raised, value]; raised stands for ValueError
int(text) ==
    LET s == strip(text)
        body == Unsigned(s)
    IN  IF body # <<>> /\ AllDigits(body)
        THEN [raised |-> FALSE, value |-> SignOf(s) * DigitsToInt(body)]
        ELSE [raised |-> TRUE, value |-> 0]

\* the value float() could not produce
ValueError == [num |-> 0, den |-> 0]

\* one value per number: trailing zeros of the fraction are dropped
RECURSIVE Normal(_)
Normal(x) ==
    IF x.den > 1 /\ x.num % 10 = 0
    THEN Normal([num |-> x.num \div 10, den |-> x.den \div 10])
    ELSE x

\* float(text): an exact decimal, or ValueError
float(text) ==
    LET s == strip(text)
        body == Unsigned(s)
        dots == {i \in 1..Len(body) : body[i] = "."}
        digits == SelectSeq(body, IsDigit)
        frac == IF dots = {} THEN 0 ELSE Len(body) - (CHOOSE i \in dots : TRUE)
    IN  IF /\ digits # <<>>
           /\ Cardinality(dots) <= 1
           /\ \A i \in 1..Len(body) : IsDigit(body[i]) \/ body[i] = "."
        THEN Normal([num |-> SignOf(s) * DigitsToInt(digits), den |-> Pow10(frac)])
        ELSE ValueError

Raised(x) == x.den = 0

\* x * n for a float x and an integer n
Times(x, n) == Normal([num |-> x.num * n, den |-> x.den])

\* x >= n and x < n for a float x and an integer n
Ge(x, n) == x.num >= n * x.den

Lt(x, n) == x.num < n * x.den

FloatOfInt(n) == [num |-> n, den |-> 1]

(***************************************************************************)
(* Texts the code compares against                                         *)
(***************************************************************************)
T_ago == <<"a", "g", "o">>

T_minute == <<"m", "i", "n", "u", "t", "e">>

T_hour == <<"h", "o", "u", "r">>

T_day == <<"d", "a", "y">>

T_a_minute_ago == <<"a", " ">> \o T_minute \o <<" ">> \o T_ago

T_an_hour_ago == <<"a", "n", " ">> \o T_hour \o <<" ">> \o T_ago

T_a_day_ago == <<"a", " ">> \o T_day \o <<" ">> \o T_ago

T_minute_ago == T_minute \o <<" ">> \o T_ago

T_minutes_ago == T_minute \o <<"s", " ">> \o T_ago

T_hour_ago == T_hour \o <<" ">> \o T_ago

T_hours_ago == T_hour \o <<"s", " ">> \o T_ago

T_days == T_day \o <<"s">>

(***************************************************************************)
(* Rating glyphs.  The source writes the Good glyph and the glyph of the   *)
(* default branches with the same string literal, so they are one value.   *)
(***************************************************************************)
Hot == "Hot"

Good == "Good"

Dead == "Dead"

DecentNew == "DecentNew"

Glyphs == {Hot, Good, Dead, DecentNew}

(***************************************************************************)
(* Quantity parsers                                                        *)
(***************************************************************************)
DefaultMarketCap == 1000

DefaultAge == 1440

\* the float() call of validate_market_cap: on the text before a k suffix,
\* or on the whole cleaned text
ParsedMarketCap(market_cap_str) ==
    LET clean_str == lower(strip(market_cap_str))
    IN  IF endswith(clean_str, <<"k">>)
        THEN float(SubSeq(clean_str, 1, Len(clean_str) - 1))
        ELSE float(clean_str)

\* a sanity check that takes every result below 100 for thousands
validate_market_cap_fixing_low(market_cap_str) ==
    LET clean_str == lower(strip(market_cap_str))
        has_k == endswith(clean_str, <<"k">>)
        parsed == ParsedMarketCap(market_cap_str)
        result == IF has_k THEN Times(parsed, 1000) ELSE parsed
        checked == IF Lt(result, 100) THEN Times(result, 1000) ELSE result
    IN  IF Raised(parsed) THEN FloatOfInt(DefaultMarketCap) ELSE checked

\* validate_market_cap: the float it returns
validate_market_cap(market_cap_str) ==
    LET clean_str == lower(strip(market_cap_str))
        has_k == endswith(clean_str, <<"k">>)
        parsed == ParsedMarketCap(market_cap_str)
        result == IF has_k THEN Times(parsed, 1000) ELSE parsed
        \* sanity check: a result below 100 with a k suffix is computed again
        checked == IF Lt(result, 100) /\ has_k
                   THEN Times(float(SubSeq(clean_str, 1, Len(clean_str) - 1)), 1000)
                   ELSE result
    IN  IF Raised(parsed) THEN FloatOfInt(DefaultMarketCap) ELSE checked

\* a unit branch that answers 0 when the leading token is no integer
LeadingTimesOrZero(time_str, unit) ==
    LET n == int(FirstToken(time_str))
    IN  IF n.raised THEN 0 ELSE n.value * unit

\* the branches of get_token_age_minutes that call int(time_str.split()[0])
LeadingTimes(time_str, unit) ==
    LET n == int(FirstToken(time_str))
    IN  IF n.raised THEN DefaultAge ELSE n.value * unit

\* get_token_age_minutes: the minutes it returns
get_token_age_minutes(time_text) ==
    LET time_str == strip(lower(time_text))
    IN  IF time_str = T_a_minute_ago THEN 1
        ELSE IF time_str = T_an_hour_ago THEN 60
        ELSE IF time_str = T_a_day_ago THEN 1440
        ELSE IF Contains(time_str, T_minute_ago) \/ Contains(time_str, T_minutes_ago)
             THEN LeadingTimes(time_str, 1)
        ELSE IF Contains(time_str, T_hour_ago) \/ Contains(time_str, T_hours_ago)
             THEN LeadingTimes(time_str, 60)
        ELSE IF Contains(time_str, T_day) \/ Contains(time_str, T_days)
             THEN LeadingTimes(time_str, 1440)
        ELSE DefaultAge

(***************************************************************************)
(* Rating chains                                                           *)
(***************************************************************************)
\* a chain that tests the Good rule before the Hot rule of new tokens
RatingChainGoodFirst(market_cap_value, age_minutes) ==
    IF Ge(market_cap_value, 50000) THEN Hot
    ELSE IF Ge(market_cap_value, 7000) THEN Good
    ELSE IF Ge(market_cap_value, 10000) /\ age_minutes <= 10 THEN Hot
    ELSE IF Lt(market_cap_value, 5000) /\ age_minutes > 10 THEN Dead
    ELSE IF Ge(market_cap_value, 5000) /\ Lt(market_cap_value, 7000)
         THEN (IF age_minutes <= 10 THEN DecentNew ELSE Good)
    ELSE Good

\* the if/elif chain of get_token_rating over the parsed quantities
RatingChain(market_cap_value, age_minutes) ==
    IF Ge(market_cap_value, 50000) THEN Hot
    ELSE IF Ge(market_cap_value, 10000) /\ age_minutes <= 10 THEN Hot
    ELSE IF Ge(market_cap_value, 7000) THEN Good
    ELSE IF Lt(market_cap_value, 5000) /\ age_minutes > 10 THEN Dead
    ELSE IF Ge(market_cap_value, 5000) /\ Lt(market_cap_value, 7000)
         THEN (IF age_minutes <= 10 THEN DecentNew ELSE Good)
    ELSE Good

\* get_token_rating: the glyph it returns
get_token_rating(market_cap_str, time_str) ==
    RatingChain(validate_market_cap(market_cap_str), get_token_age_minutes(time_str))

\* the if/elif chain of analyze_agent_with_ai over its own quantities
AiRatingChain(market_cap_value, age_minutes) ==
    IF Ge(market_cap_value, 10000) /\ age_minutes <= 10 THEN Hot
    ELSE IF Ge(market_cap_value, 7000) THEN Good
    ELSE IF Lt(market_cap_value, 5000) /\ age_minutes > 10 THEN Dead
    ELSE IF Ge(market_cap_value, 5000) /\ Lt(market_cap_value, 7000)
         THEN (IF age_minutes <= 10 THEN DecentNew ELSE Good)
    ELSE Good

\* the market cap analyze_agent_with_ai computes: float(text.replace('k', '000'))
AiMarketCap(market_cap_str) == float(replace(market_cap_str, "k", <<"0", "0", "0">>))

\* the rating analyze_agent_with_ai assigns before it builds the prompt:
\* [bound, rating]; bound is FALSE when float() or agent_data['time'] raised
\* first, which leaves the local variable rating unassigned
AiRating(agent_data) ==
    IF Raised(AiMarketCap(agent_data.market_cap)) \/ "time" \notin DOMAIN agent_data
    THEN [bound |-> FALSE, rating |-> Good]
    ELSE [bound |-> TRUE,
          rating |-> AiRatingChain(AiMarketCap(agent_data.market_cap),
                                   get_token_age_minutes(agent_data.time))]

(***************************************************************************)
(* Snapshots: a dict of name -> record in insertion order is a sequence of *)
(* records with pairwise different names                                   *)
(***************************************************************************)
Keys(agents) == {agents[i].name : i \in 1..Len(agents)}

\* agents[name]
Lookup(agents, name) == agents[CHOOSE i \in 1..Len(agents) : agents[i].name = name]

\* del agents[name]
Without(agents, name) == SelectSeq(agents, LAMBDA r : r.name # name)

NoChanges == [new |-> <<>>, updated |-> <<>>, removed |-> <<>>]

\* any(changes.values())
AnyChanges(ch) == ch.new # <<>> \/ ch.updated # <<>> \/ ch.removed # <<>>

(***************************************************************************)
(* detect_agent_changes.  The two loops are run over a state holding the   *)
(* result and both arguments, so that the value of the arguments after the *)
(* call is part of what the function yields.                               *)
(***************************************************************************)
\* a change detector that compares the market cap alone
CurrentStepCapOnly(st, data) ==
    IF data.name \notin Keys(st.previous)
    THEN [st EXCEPT !.changes.new = Append(@, data)]
    ELSE IF Lookup(st.previous, data.name).market_cap # data.market_cap
         THEN [st EXCEPT !.changes.updated = Append(@, data)]
         ELSE st

\* the body of `for name, data in current_agents.items()`
CurrentStep(st, data) ==
    IF data.name \notin Keys(st.previous)
    THEN [st EXCEPT !.changes.new = Append(@, data)]
    ELSE IF Lookup(st.previous, data.name) # data
         THEN [st EXCEPT !.changes.updated = Append(@, data)]
         ELSE st

\* a change detector that drops a removed name from the previous snapshot
PreviousStepPopping(st, name) ==
    IF name \notin Keys(st.current)
    THEN [st EXCEPT !.changes.removed = Append(@, name),
                    !.previous = Without(@, name)]
    ELSE st

\* the body of `for name in previous_agents`
PreviousStep(st, name) ==
    IF name \notin Keys(st.current)
    THEN [st EXCEPT !.changes.removed = Append(@, name)]
    ELSE st

RECURSIVE CurrentLoop(_, _, _)
CurrentLoop(st, items, i) ==
    IF i > Len(items) THEN st
    ELSE CurrentLoop(CurrentStep(st, items[i]), items, i + 1)

RECURSIVE PreviousLoop(_, _, _)
PreviousLoop(st, names, i) ==
    IF i > Len(names) THEN st
    ELSE PreviousLoop(PreviousStep(st, names[i]), names, i + 1)

NamesOf(agents) == [i \in 1..Len(agents) |-> agents[i].name]

\* detect_agent_changes: [changes, current, previous] when it returns
detect_agent_changes(current_arg, previous_arg) ==
    LET st0 == [changes |-> NoChanges, current |-> current_arg, previous |-> previous_arg]
        st1 == CurrentLoop(st0, current_arg, 1)
    IN  PreviousLoop(st1, NamesOf(previous_arg), 1)

(***************************************************************************)
(* analyze_agent_with_ai.  A text the narrative service or the function    *)
(* returns is the set of rating glyphs it contains: no glyph is part of    *)
(* another, and the texts are only ever searched for glyphs.  The service  *)
(* is given as the outcome it would produce at each attempt.               *)
(***************************************************************************)
max_retries == 3

\* the service raised, or returned a message whose content holds these glyphs
ServiceRaises == [raises |-> TRUE, content |-> {}]

Response(glyphs) == [raises |-> FALSE, content |-> glyphs]

PromptKeys == {"name", "symbol", "market_cap", "creator", "time", "description"}

\* the retry loop that gives up without the synthesized narrative
RECURSIVE AttemptsNoFallback(_, _, _)
AttemptsNoFallback(rating, outcomes, attempt) ==
    IF attempt > max_retries
    THEN [raised |-> FALSE, analysis |-> outcomes[max_retries].content,
          calls |-> max_retries]
    ELSE IF outcomes[attempt].raises
    THEN [raised |-> FALSE, analysis |-> {rating}, calls |-> attempt]
    ELSE IF rating \in outcomes[attempt].content
    THEN [raised |-> FALSE, analysis |-> outcomes[attempt].content, calls |-> attempt]
    ELSE AttemptsNoFallback(rating, outcomes, attempt + 1)

\* `for attempt in range(max_retries)` and what follows it
RECURSIVE Attempts(_, _, _)
Attempts(rating, outcomes, attempt) ==
    IF attempt > max_retries
    THEN \* every attempt lacked the glyph: the synthesized narrative
         [raised |-> FALSE, analysis |-> {rating} \cup outcomes[max_retries].content,
          calls |-> max_retries]
    ELSE IF outcomes[attempt].raises
    THEN \* except: "<rating> Analysis unavailable"
         [raised |-> FALSE, analysis |-> {rating}, calls |-> attempt]
    ELSE IF rating \in outcomes[attempt].content
    THEN [raised |-> FALSE, analysis |-> outcomes[attempt].content, calls |-> attempt]
    ELSE Attempts(rating, outcomes, attempt + 1)

\* analyze_agent_with_ai once the rating r = AiRating(agent_data) is known:
\* [raised, analysis, calls]; raised stands for the UnboundLocalError of the
\* except branch when rating was never assigned
Narrative(r, agent_data, outcomes) ==
    IF ~r.bound
    THEN [raised |-> TRUE, analysis |-> {}, calls |-> 0]
    ELSE IF ~(PromptKeys \subseteq DOMAIN agent_data)
    THEN [raised |-> FALSE, analysis |-> {r.rating}, calls |-> 0]
    ELSE Attempts(r.rating, outcomes, 1)

analyze_agent_with_ai(agent_data, outcomes) ==
    Narrative(AiRating(agent_data), agent_data, outcomes)

(***************************************************************************)
(* analyze_token_page                                                      *)
(***************************************************************************)
None == "None"

\* the record analyze_token_page hands to analyze_agent_with_ai
ChatAnalysisAgent(token_data) ==
    [name |-> token_data.name, symbol |-> token_data.symbol,
     market_cap |-> token_data.market_cap, description |-> "prompt"]

\* the keys of the token_details dict analyze_token_page builds
TokenDetailKeys ==
    {"holders", "total_supply", "contract_address", "social_links", "chat_activity"}

\* analyze_token_page: [is_none, keys]: None when the page did not load,
\* otherwise the keys of the dict it returns.  chat_analysis is set only
\* when the nested analyze_agent_with_ai returned.
analyze_token_page(page_loads, token_data, outcomes) ==
    IF ~page_loads THEN [is_none |-> TRUE, keys |-> {}]
    ELSE [is_none |-> FALSE,
          keys |-> TokenDetailKeys \cup
                   (IF analyze_agent_with_ai(ChatAnalysisAgent(token_data), outcomes).raised
                    THEN {}
                    ELSE {"chat_analysis"})]

(***************************************************************************)
(* sorted(agents.values(), key=lambda x: x['time'], reverse=True)          *)
(***************************************************************************)
\* the characters of the model's texts in code point order
Alphabet == <<" ", "+", "-", ".">> \o Digits \o UpperCase \o LowerCase

CodePoint(c) == CHOOSE i \in 1..Len(Alphabet) : Alphabet[i] = c

\* a < b on two strings
RECURSIVE StrLess(_, _)
StrLess(a, b) ==
    IF b = <<>> THEN FALSE
    ELSE IF a = <<>> THEN TRUE
    ELSE IF Head(a) # Head(b) THEN CodePoint(Head(a)) < CodePoint(Head(b))
    ELSE StrLess(Tail(a), Tail(b))

\* where a stable descending sort puts agents[i]: behind the records of a
\* greater time text and behind the earlier records of the same time text
PlaceByTime(agents, i) ==
    Cardinality({j \in 1..Len(agents) :
                    \/ StrLess(agents[i].time, agents[j].time)
                    \/ (j < i /\ agents[j].time = agents[i].time)}) + 1

sorted_by_time(agents) ==
    [k \in 1..Len(agents) |->
        agents[CHOOSE i \in 1..Len(agents) : PlaceByTime(agents, i) = k]]

\* seq[:n]
Take(seq, n) == SubSeq(seq, 1, IF Len(seq) < n THEN Len(seq) ELSE n)

(***************************************************************************)
(* get_market_status.  The average and the percentage are quotients of two *)
(* counts: [num, den] with den > 0 stands for num / den.  Over the counts  *)
(* of the model the float quotients compare with the thresholds as the     *)
(* exact quotients do.  The status text is the sequence of its phrases,    *)
(* which ' | '.join writes one after the other.                            *)
(***************************************************************************)
HOT == "HOT"

GROWING == "GROWING"

ACTIVE == "ACTIVE"

COLD == "COLD"

NEUTRAL == "NEUTRAL"

Quotient(n, d) == [num |-> n, den |-> d]

\* x > n, x > t/10 and x < t/10 for a quotient x
Gt(x, n) == x.num > n * x.den

GtTenths(x, t) == 10 * x.num > t * x.den

LtTenths(x, t) == 10 * x.num < t * x.den

\* a status that stops at the first phrase whose check holds
get_market_status_first_only(avg_thumbs, high_potential_percentage, new_promising_count) ==
    IF GtTenths(avg_thumbs, 15) /\ Gt(high_potential_percentage, 50) THEN <<HOT>>
    ELSE IF new_promising_count >= 2 THEN <<GROWING>>
    ELSE IF GtTenths(avg_thumbs, 5) \/ Gt(high_potential_percentage, 30) THEN <<ACTIVE>>
    ELSE IF LtTenths(avg_thumbs, 2) /\ Lt(high_potential_percentage, 20) THEN <<COLD>>
    ELSE <<NEUTRAL>>

\* get_market_status: the phrases of the status it returns, in order
get_market_status(avg_thumbs, high_potential_percentage, new_promising_count) ==
    LET hot == IF GtTenths(avg_thumbs, 15) /\ Gt(high_potential_percentage, 50)
               THEN <<HOT>> ELSE <<>>
        growing == IF new_promising_count >= 2 THEN <<GROWING>> ELSE <<>>
        active == IF GtTenths(avg_thumbs, 5) \/ Gt(high_potential_percentage, 30)
                  THEN <<ACTIVE>> ELSE <<>>
        cold == IF LtTenths(avg_thumbs, 2) /\ Lt(high_potential_percentage, 20)
                THEN <<COLD>> ELSE <<>>
        status == hot \o growing \o active \o cold
    IN  IF status = <<>> THEN <<NEUTRAL>> ELSE status

(***************************************************************************)
(* analyze_market_summary                                                  *)
(***************************************************************************)
\* the compound glyph of a very new Good token in the top market cap list
NewGood == "NewGood"

TopLimit == 10

\* x < y on two floats
FloatLess(x, y) == x.num * y.den < y.num * x.den

\* the sort key of a record: validate_market_cap(x['market_cap'])
CapKey(agent) == validate_market_cap(agent.market_cap)

\* where a stable descending sort by the key puts agents[i]: behind the
\* records of a greater key and behind the earlier records of the same key
PlaceByCap(agents, i) ==
    Cardinality({j \in 1..Len(agents) :
                    \/ FloatLess(CapKey(agents[i]), CapKey(agents[j]))
                    \/ (j < i /\ ~FloatLess(CapKey(agents[j]), CapKey(agents[i])))}) + 1

\* sorted(agents.values(), key=lambda x: validate_market_cap(x['market_cap']), reverse=True)
sorted_by_cap(agents) ==
    [k \in 1..Len(agents) |->
        agents[CHOOSE i \in 1..Len(agents) : PlaceByCap(agents, i) = k]]

\* the record appended to promising_tokens; the descriptions of the model
\* are shorter than 100 characters and are kept whole
PromisingToken(agent, rating) ==
    [name |-> agent.name, symbol |-> agent.symbol, market_cap |-> agent.market_cap,
     time |-> agent.time, rating |-> rating, description |-> agent.description]

\* the counters before the first pass
NoCounters ==
    [thumbs_up_count |-> 0, high_potential_count |-> 0, new_promising_count |-> 0,
     promising_tokens |-> <<>>]

\* the rating the first pass gives a record
FirstPassRating(agent) == get_token_rating(agent.market_cap, agent.time)

\* a first pass that counts a Decent-New record as high potential too
FirstPassStepAllHigh(st, agent) ==
    [st EXCEPT
        !.thumbs_up_count =
            @ + (IF FirstPassRating(agent) \in {Hot, Good, DecentNew} THEN 1 ELSE 0),
        !.high_potential_count =
            @ + (IF FirstPassRating(agent) \in {Hot, Good, DecentNew} THEN 1 ELSE 0),
        !.promising_tokens =
            IF FirstPassRating(agent) \in {Hot, Good, DecentNew}
            THEN Append(@, PromisingToken(agent, FirstPassRating(agent)))
            ELSE @]

\* a first pass whose two branches for a Hot or Good record are both taken
FirstPassStepCountingTwice(st, agent) ==
    [st EXCEPT
        !.thumbs_up_count =
            @ + (IF FirstPassRating(agent) \in {Hot, Good} THEN 2
                 ELSE IF FirstPassRating(agent) = DecentNew THEN 1
                 ELSE 0),
        !.high_potential_count =
            @ + (IF FirstPassRating(agent) \in {Hot, Good} THEN 1 ELSE 0),
        !.new_promising_count =
            @ + (IF /\ Contains(agent.time, T_minutes_ago)
                    /\ Ge(validate_market_cap(agent.market_cap), 10000)
                 THEN 1 ELSE 0),
        !.promising_tokens =
            IF FirstPassRating(agent) \in {Hot, Good, DecentNew}
            THEN Append(@, PromisingToken(agent, FirstPassRating(agent)))
            ELSE @]

\* the body of `for agent in time_sorted_agents`: both counters grow for a
\* Hot or Good record and the positive counter alone for a Decent-New one;
\* the first new-promising count; the promising list
FirstPassStep(st, agent) ==
    [st EXCEPT
        !.thumbs_up_count =
            @ + (IF FirstPassRating(agent) \in {Hot, Good} THEN 1
                 ELSE IF FirstPassRating(agent) = DecentNew THEN 1
                 ELSE 0),
        !.high_potential_count =
            @ + (IF FirstPassRating(agent) \in {Hot, Good} THEN 1 ELSE 0),
        !.new_promising_count =
            @ + (IF /\ Contains(agent.time, T_minutes_ago)
                    /\ Ge(validate_market_cap(agent.market_cap), 10000)
                 THEN 1 ELSE 0),
        !.promising_tokens =
            IF FirstPassRating(agent) \in {Hot, Good, DecentNew}
            THEN Append(@, PromisingToken(agent, FirstPassRating(agent)))
            ELSE @]

RECURSIVE FirstPass(_, _, _)
FirstPass(st, agents, i) ==
    IF i > Len(agents) THEN st
    ELSE FirstPass(FirstPassStep(st, agents[i]), agents, i + 1)

\* a second count that keeps the threshold of the first
NewPromisingCountAt10000(time_sorted_agents) ==
    Cardinality({i \in 1..Len(time_sorted_agents) :
                    /\ Contains(time_sorted_agents[i].time, T_minutes_ago)
                    /\ Ge(validate_market_cap(time_sorted_agents[i].market_cap), 10000)})

\* the sum that assigns new_promising_count again after the first pass
NewPromisingCount(time_sorted_agents) ==
    Cardinality({i \in 1..Len(time_sorted_agents) :
                    /\ Contains(time_sorted_agents[i].time, T_minutes_ago)
                    /\ Ge(validate_market_cap(time_sorted_agents[i].market_cap), 7000)})

\* a display chain that tests the very new Good rule before the Hot rules
TopRatingChainNewGoodFirst(market_cap_value, age_minutes) ==
    IF Ge(market_cap_value, 7000) /\ age_minutes <= 3 THEN NewGood
    ELSE IF Ge(market_cap_value, 50000) THEN Hot
    ELSE IF Ge(market_cap_value, 10000) /\ age_minutes <= 10 THEN Hot
    ELSE IF Ge(market_cap_value, 7000) THEN Good
    ELSE IF Lt(market_cap_value, 5000) /\ age_minutes > 10 THEN Dead
    ELSE IF Ge(market_cap_value, 5000) /\ Lt(market_cap_value, 7000)
         THEN (IF age_minutes <= 10 THEN DecentNew ELSE Good)
    ELSE Good

\* the if/elif chain of the top market cap list
TopRatingChain(market_cap_value, age_minutes) ==
    IF Ge(market_cap_value, 50000) THEN Hot
    ELSE IF Ge(market_cap_value, 10000) /\ age_minutes <= 10 THEN Hot
    ELSE IF Ge(market_cap_value, 7000)
         THEN (IF age_minutes <= 3 THEN NewGood ELSE Good)
    ELSE IF Lt(market_cap_value, 5000) /\ age_minutes > 10 THEN Dead
    ELSE IF Ge(market_cap_value, 5000) /\ Lt(market_cap_value, 7000)
         THEN (IF age_minutes <= 10 THEN DecentNew ELSE Good)
    ELSE Good

\* one line of the top market cap list
TopLine(agent) ==
    [name |-> agent.name, market_cap |-> agent.market_cap, time |-> agent.time,
     market_cap_value |-> validate_market_cap(agent.market_cap),
     rating |-> TopRatingChain(validate_market_cap(agent.market_cap),
                               get_token_age_minutes(agent.time))]

\* a quotient computed without the guard against an empty window
AverageUnguarded(count, total_agents) == Quotient(count, total_agents)

\* `count / total_agents if total_agents > 0 else 0`; a den of 0 stands for
\* ZeroDivisionError
Average(count, total_agents) ==
    IF total_agents > 0 THEN Quotient(count, total_agents) ELSE Quotient(0, 1)

\* `except Exception`: the text "Error generating market summary"
ErrorSummary ==
    [error |-> TRUE, total_agents |-> 0, thumbs_up_count |-> 0,
     avg_thumbs |-> Quotient(0, 1), high_potential_count |-> 0,
     high_potential_percentage |-> Quotient(0, 1), new_promising_count |-> 0,
     market_status |-> <<>>, promising_tokens |-> <<>>, top |-> <<>>]

\* the summary text from `logger.info("=== Market Summary Statistics ===")`
\* on: what it is built from, or the error text when a division raised
SummaryText(total_agents, st, avg_thumbs, high_potential_percentage, new_promising_count, market_cap_sorted_agents) ==
    IF avg_thumbs.den = 0 \/ high_potential_percentage.den = 0 THEN ErrorSummary
    ELSE [error |-> FALSE,
          total_agents |-> total_agents,
          thumbs_up_count |-> st.thumbs_up_count,
          avg_thumbs |-> avg_thumbs,
          high_potential_count |-> st.high_potential_count,
          high_potential_percentage |-> high_potential_percentage,
          new_promising_count |-> new_promising_count,
          market_status |-> get_market_status(avg_thumbs, high_potential_percentage,
                                              new_promising_count),
          promising_tokens |-> st.promising_tokens,
          top |-> [i \in 1..Len(market_cap_sorted_agents) |->
                      TopLine(market_cap_sorted_agents[i])]]

\* "Calculate market metrics" and the second new-promising count, which
\* replaces the one of the first pass
MarketMetrics(total_agents, st, time_sorted_agents, market_cap_sorted_agents) ==
    SummaryText(total_agents, st,
                Average(st.thumbs_up_count, total_agents),
                Average(st.high_potential_count * 100, total_agents),
                NewPromisingCount(time_sorted_agents),
                market_cap_sorted_agents)

\* the first pass over the two sorted lists
SummaryOf(time_sorted_agents, market_cap_sorted_agents) ==
    MarketMetrics(Len(time_sorted_agents),
                  FirstPass(NoCounters, time_sorted_agents, 1),
                  time_sorted_agents, market_cap_sorted_agents)

\* analyze_market_summary
analyze_market_summary(agents, num_recent_arg) ==
    SummaryOf(Take(sorted_by_time(agents), num_recent_arg),
              Take(sorted_by_cap(agents), TopLimit))

(***************************************************************************)
(* The inputs of the model                                                 *)
(***************************************************************************)
MaxAgents == 2

AgentNames == <<"Foo", "Bar", "Baz", "Qux">>

Names == {AgentNames[i] : i \in 1..MaxAgents}

Txt_5_minutes_ago == <<"5", " ">> \o T_minutes_ago

Txt_2_hours_ago == <<"2", " ">> \o T_hours_ago

Txt_8k == <<"8", "k">>

Txt_3k == <<"3", "k">>

Txt_1_2m == <<"1", ".", "2", "m">>

Agent(name, market_cap, time, description) ==
    [name |-> name, symbol |-> "SYM", market_cap |-> market_cap,
     creator |-> "Unknown", time |-> time, description |-> description]

\* the records of the monitoring loop: a Good token, a token whose market
\* cap text is no number, and a Dead token
LoopRecords ==
    {Agent(n, Txt_8k, Txt_5_minutes_ago, "d1") : n \in Names}
    \cup {Agent(n, Txt_1_2m, Txt_5_minutes_ago, "d1") : n \in Names}
    \cup {Agent(n, Txt_3k, Txt_2_hours_ago, "d1") : n \in Names}

\* the records of the change detector: Foo as it was and with each field
\* changed in turn, Bar as it was and with another market cap, Baz
FooBase == Agent("Foo", Txt_8k, Txt_5_minutes_ago, "d1")

BarBase == Agent("Bar", Txt_3k, Txt_2_hours_ago, "d1")

DiffRecords ==
    {FooBase,
     [FooBase EXCEPT !.symbol = "FOO"],
     [FooBase EXCEPT !.market_cap = Txt_3k],
     [FooBase EXCEPT !.creator = "0xabc"],
     [FooBase EXCEPT !.time = Txt_2_hours_ago],
     [FooBase EXCEPT !.description = "d2"],
     [FooBase EXCEPT !.market_cap = Txt_3k, !.description = "d2"],
     BarBase,
     [BarBase EXCEPT !.market_cap = Txt_8k],
     Agent("Baz", Txt_8k, Txt_5_minutes_ago, "d1")}

DistinctNames(agents) ==
    \A i, j \in 1..Len(agents) : agents[i].name = agents[j].name => i = j

\* the snapshots of at most MaxAgents records over a set of records
Snapshots(records) ==
    UNION {{agents \in [1..n -> records] : DistinctNames(agents)} : n \in 0..MaxAgents}

LoopSnapshots == Snapshots(LoopRecords)

DiffSnapshots == Snapshots(DiffRecords)

(***************************************************************************)
(* The texts of the rating calls                                           *)
(***************************************************************************)
Cap_60000 == <<"6", "0", "0", "0", "0">>

Cap_60k == <<"6", "0", "k">>

Cap_50k == <<"5", "0", "k">>

Cap_49999 == <<"4", "9", "9", "9", "9">>

Cap_12_5k == <<"1", "2", ".", "5", "k">>

Cap_12k == <<"1", "2", "k">>

Cap_10_5k == <<"1", "0", ".", "5", "k">>

Cap_10k == <<"1", "0", "k">>

Cap_9999 == <<"9", "9", "9", "9">>

Cap_7k == <<"7", "k">>

Cap_6999 == <<"6", "9", "9", "9">>

Cap_6k == <<"6", "k">>

Cap_5k == <<"5", "k">>

Cap_4999 == <<"4", "9", "9", "9">>

Cap_4k == <<"4", "k">>

Cap_500 == <<"5", "0", "0">>

Cap_50 == <<"5", "0">>

Cap_0_05k == <<"0", ".", "0", "5", "k">>

Cap_garbage == <<"g", "a", "r", "b", "a", "g", "e">>

Cap_12K == <<"1", "2", "K">>

Cap_7k_padded == <<" ", "7", "k", " ">>

Age_a_minute_ago == <<"a", " ", "m", "i", "n", "u", "t", "e", " ", "a", "g", "o">>

Age_an_hour_ago == <<"a", "n", " ", "h", "o", "u", "r", " ", "a", "g", "o">>

Age_a_day_ago == <<"a", " ", "d", "a", "y", " ", "a", "g", "o">>

Age_3_minutes_ago == <<"3", " ", "m", "i", "n", "u", "t", "e", "s", " ", "a", "g", "o">>

Age_10_minutes_ago == <<"1", "0", " ", "m", "i", "n", "u", "t", "e", "s", " ", "a", "g", "o">>

Age_11_minutes_ago == <<"1", "1", " ", "m", "i", "n", "u", "t", "e", "s", " ", "a", "g", "o">>

Age_20_minutes_ago == <<"2", "0", " ", "m", "i", "n", "u", "t", "e", "s", " ", "a", "g", "o">>

Age_50_minutes_ago == <<"5", "0", " ", "m", "i", "n", "u", "t", "e", "s", " ", "a", "g", "o">>

Age_9999_minutes_ago == <<"9", "9", "9", "9", " ", "m", "i", "n", "u", "t", "e", "s", " ", "a", "g", "o">>

Age_3_days_ago == <<"3", " ", "d", "a", "y", "s", " ", "a", "g", "o">>

Age_1_minute_ago == <<"1", " ">> \o T_minute_ago

Age_1_hour_ago == <<"1", " ">> \o T_hour_ago

Age_few_minutes_ago == <<"f", "e", "w", " ">> \o T_minutes_ago

Age_weird_text == <<"w", "e", "i", "r", "d", " ", "t", "e", "x", "t">>

Age_Unknown == <<"U", "n", "k", "n", "o", "w", "n">>

RatingCaps ==
    {Cap_60000, Cap_60k, Cap_50k, Cap_49999, Cap_12_5k, Cap_12k, Cap_10_5k,
     Cap_10k, Cap_9999, Txt_8k, Cap_7k, Cap_6999, Cap_6k, Cap_5k, Cap_4999,
     Cap_4k, Txt_3k, Cap_500, Cap_50, Cap_0_05k, Cap_garbage, Txt_1_2m, Cap_12K,
     Cap_7k_padded}

RatingTimes ==
    {Age_a_minute_ago, Age_an_hour_ago, Age_a_day_ago, Age_3_minutes_ago,
     Txt_5_minutes_ago, Age_10_minutes_ago, Age_11_minutes_ago,
     Age_20_minutes_ago, Age_50_minutes_ago, Age_9999_minutes_ago,
     Txt_2_hours_ago, Age_3_days_ago, Age_1_minute_ago, Age_1_hour_ago,
     Age_few_minutes_ago, Age_weird_text, Age_Unknown}

RatingAgents == {Agent("Foo", c, t, "d1") : c \in RatingCaps, t \in RatingTimes}

\* what the narrative service may do at one attempt, and at the attempts of one call
Outcomes ==
    {ServiceRaises} \cup {Response(g) : g \in {{}, {Good}, {Dead}, {Hot, Good}}}

OutcomeSeqs == [1..max_retries -> Outcomes]

\* the service as the monitoring loop meets it: it raises, or leaves the
\* glyph out every time, or writes the Good glyph every time
LoopOutcomes == {ServiceRaises, Response({}), Response({Good})}

LoopOutcomeSeqs == {[i \in 1..max_retries |-> o] : o \in LoopOutcomes}

(***************************************************************************)
(* The snapshots and the status arguments of the summary calls             *)
(***************************************************************************)
Age_2_minutes_ago == <<"2", " ">> \o T_minutes_ago

\* market cap text and age text of the records the summaries are made of:
\* Hot by its cap alone, Hot and very new, Good and new, Good and very new
\* under an exact phrase, Decent-New, Dead, and a cap text that is no number
SummaryTexts ==
    {<<Cap_60k, Txt_2_hours_ago>>,
     <<Cap_12k, Age_2_minutes_ago>>,
     <<Txt_8k, Txt_5_minutes_ago>>,
     <<Txt_8k, Age_a_minute_ago>>,
     <<Cap_6k, Txt_5_minutes_ago>>,
     <<Txt_3k, Txt_2_hours_ago>>,
     <<Txt_1_2m, Txt_5_minutes_ago>>}

SummaryRecords == {Agent(n, ct[1], ct[2], "d1") : n \in Names, ct \in SummaryTexts}

\* a page of more records than the top market cap list holds
LongNames == <<"T01", "T02", "T03", "T04", "T05", "T06", "T07", "T08", "T09", "T10",
               "T11", "T12">>

LongCaps == <<Txt_3k, Cap_12k, Cap_4k, Cap_60k, Cap_5k, Txt_8k, Cap_6k, Cap_7k,
              Cap_10k, Cap_500, Cap_50k, Cap_9999>>

LongTimes == <<Txt_2_hours_ago, Age_2_minutes_ago, Txt_5_minutes_ago, Age_a_day_ago,
               Age_11_minutes_ago, Age_3_minutes_ago, Txt_5_minutes_ago,
               Age_an_hour_ago, Age_20_minutes_ago, Age_a_minute_ago,
               Age_10_minutes_ago, Age_2_minutes_ago>>

LongSnapshot ==
    [i \in 1..Len(LongNames) |-> Agent(LongNames[i], LongCaps[i], LongTimes[i], "d1")]

SummarySnapshots == Snapshots(SummaryRecords) \cup {LongSnapshot}

\* num_recent: an empty window, windows shorter than a page, the default
RecentLimits == {0, 1, 2, 50}

\* the arguments of get_market_status on its own
StatusAverages ==
    {Quotient(0, 1), Quotient(1, 10), Quotient(1, 5), Quotient(1, 2), Quotient(3, 5),
     Quotient(1, 1), Quotient(3, 2), Quotient(2, 1)}

StatusPercentages ==
    {Quotient(0, 1), Quotient(10, 1), Quotient(20, 1), Quotient(30, 1), Quotient(100, 3),
     Quotient(50, 1), Quotient(60, 1), Quotient(100, 1)}

StatusCounts == {0, 1, 2, 3}

(***************************************************************************)
(* State                                                                   *)
(***************************************************************************)
VARIABLES
    pc,               \* where monitor_changes (or the function under check) is
    page_content,     \* what the last fetch_page_content returned: None or html
    current_agents,   \* the snapshot parsed from the last page
    previous_agents,  \* the global previous_agents
    changes,          \* the last result of detect_agent_changes
    idx,              \* log_changes: the next record of changes["new"]
    appended,         \* the lines this pass of the loop has appended to updates_log.txt
    narrated,         \* the names this pass has handed to analyze_agent_with_ai
    agent_data,       \* the record of a rating call
    result,           \* the rating call: the quantities it parsed and what it returned
    num_recent,       \* the num_recent argument of analyze_market_summary
    summary,          \* what analyze_market_summary computed
    status_call       \* a call of get_market_status: its arguments and its result

vars == <<pc, page_content, current_agents, previous_agents, changes, idx,
          appended, narrated, agent_data, result, num_recent, summary, status_call>>

loop_vars == <<page_content, current_agents, previous_agents, changes, idx,
               appended, narrated>>

rating_vars == <<agent_data, result>>

summary_vars == <<num_recent, summary, status_call>>

Html == "html"

Line(kind, name) == [kind |-> kind, name |-> name]

NoAgent == Agent("", <<>>, <<>>, "")

NoOutcomes == [i \in 1..max_retries |-> ServiceRaises]

NoResult ==
    [market_cap_value |-> FloatOfInt(0), age_minutes |-> 0,
     rating |-> Good, ai_rating |-> [bound |-> FALSE, rating |-> Good],
     ai |-> [raised |-> FALSE, analysis |-> {}, calls |-> 0], outcomes |-> NoOutcomes]

NoSummary ==
    [error |-> FALSE, total_agents |-> 0, thumbs_up_count |-> 0, avg_thumbs |-> Quotient(0, 1),
     high_potential_count |-> 0, high_potential_percentage |-> Quotient(0, 1),
     new_promising_count |-> 0, market_status |-> <<>>, promising_tokens |-> <<>>,
     top |-> <<>>]

NoStatusCall ==
    [avg_thumbs |-> Quotient(0, 1), high_potential_percentage |-> Quotient(0, 1),
     new_promising_count |-> 0, status |-> <<>>]

(***************************************************************************)
(* monitor_changes: the initial fetch and display                          *)
(***************************************************************************)
Init ==
    /\ pc = "init"
    /\ page_content = None
    /\ current_agents = <<>>
    /\ previous_agents = <<>>
    /\ changes = NoChanges
    /\ idx = 0
    /\ appended = <<>>
    /\ narrated = {}
    /\ agent_data = NoAgent
    /\ result = NoResult
    /\ num_recent = 0
    /\ summary = NoSummary
    /\ status_call = NoStatusCall

\* a failed initial fetch that goes on into the while loop
InitialFetchFailsEntering ==
    /\ pc = "init"
    /\ pc' = "fetch"
    /\ UNCHANGED <<loop_vars, rating_vars, summary_vars>>

\* fetch_page_content returned None: "Failed to fetch initial page content"
InitialFetchFails ==
    /\ pc = "init"
    /\ pc' = "exit_fetch"
    /\ UNCHANGED <<loop_vars, rating_vars, summary_vars>>

\* the page was fetched and parsed; an empty snapshot ends monitor_changes
InitialFetch ==
    /\ pc = "init"
    /\ page_content' = Html
    /\ \E agents \in LoopSnapshots : current_agents' = agents
    /\ pc' = IF current_agents' = <<>> THEN "exit_parse" ELSE "display"
    /\ UNCHANGED <<previous_agents, changes, idx, appended, narrated, rating_vars, summary_vars>>

\* the lines the initial state writes: the 10 most recent records, the summary
InitialLines(agents) ==
    LET recent == Take(sorted_by_time(agents), 10)
    IN  <<Line("initial_header", "")>>
        \o [i \in 1..Len(recent) |-> Line("initial", recent[i].name)]
        \o <<Line("summary", "")>>

\* display_all_agents, analyze_market_summary and the initial log; an
\* exception of analyze_agent_with_ai leaves monitor_changes
Display ==
    /\ pc = "display"
    /\ LET shown == Take(sorted_by_time(current_agents), 50)
           raises == \E i \in 1..Len(shown) : ~AiRating(shown[i]).bound
       IN  IF raises
           THEN /\ pc' = "exit_error"
                /\ UNCHANGED <<previous_agents, appended>>
           ELSE /\ pc' = "fetch"
                /\ appended' = InitialLines(current_agents)
                /\ previous_agents' = current_agents
    /\ UNCHANGED <<page_content, current_agents, changes, idx, narrated, rating_vars, summary_vars>>

(***************************************************************************)
(* monitor_changes: the while loop                                         *)
(***************************************************************************)
\* a failed fetch that forgets the previous snapshot
FetchFailsForgetting ==
    /\ pc = "fetch"
    /\ page_content' = None
    /\ previous_agents' = <<>>
    /\ UNCHANGED <<pc, current_agents, changes, idx, appended, narrated, rating_vars, summary_vars>>

\* fetch_page_content returned None: sleep and continue
FetchFails ==
    /\ pc = "fetch"
    /\ page_content' = None
    /\ UNCHANGED <<pc, current_agents, previous_agents, changes, idx, appended,
                   narrated, rating_vars, summary_vars>>

\* the page was fetched and parsed into current_agents; a new pass begins
FetchOk ==
    /\ pc = "fetch"
    /\ page_content' = Html
    /\ \E agents \in LoopSnapshots : current_agents' = agents
    /\ changes' = NoChanges
    /\ idx' = 0
    /\ appended' = <<>>
    /\ narrated' = {}
    /\ pc' = "detect"
    /\ UNCHANGED <<previous_agents, rating_vars, summary_vars>>

\* a loop that logs only when changes["new"] is not empty
DetectNewOnly ==
    /\ pc = "detect"
    /\ LET st == detect_agent_changes(current_agents, previous_agents)
       IN  /\ changes' = st.changes
           /\ current_agents' = st.current
           /\ previous_agents' = st.previous
    /\ pc' = IF changes'.new # <<>> THEN "log" ELSE "update"
    /\ UNCHANGED <<page_content, idx, appended, narrated, rating_vars, summary_vars>>

\* changes = detect_agent_changes(current_agents, previous_agents)
Detect ==
    /\ pc = "detect"
    /\ LET st == detect_agent_changes(current_agents, previous_agents)
       IN  /\ changes' = st.changes
           /\ current_agents' = st.current
           /\ previous_agents' = st.previous
    /\ pc' = IF AnyChanges(changes') THEN "log" ELSE "update"
    /\ UNCHANGED <<page_content, idx, appended, narrated, rating_vars, summary_vars>>

\* log_changes up to the loop over changes["new"]
LogOpen ==
    /\ pc = "log"
    /\ IF ~AnyChanges(changes)
       THEN /\ pc' = "update"
            /\ UNCHANGED <<idx, appended>>
       ELSE /\ pc' = "log_new"
            /\ idx' = 1
            /\ appended' = appended \o <<Line("header", "")>>
                   \o (IF changes.new # <<>> THEN <<Line("new_section", "")>> ELSE <<>>)
    /\ UNCHANGED <<page_content, current_agents, previous_agents, changes, narrated,
                   rating_vars, summary_vars>>

\* one pass of `for agent in changes["new"]`: [raised, lines]
LogNewAgent(agent, outcomes, page_loads) ==
    LET a == analyze_agent_with_ai(agent, outcomes)
        detailed_info == analyze_token_page(page_loads, agent, outcomes)
    IN  IF a.raised THEN [raised |-> TRUE, lines |-> <<>>]
        ELSE IF Good \notin a.analysis
        THEN [raised |-> FALSE, lines |-> <<Line("new", agent.name)>>]
        ELSE IF detailed_info.is_none
        THEN [raised |-> FALSE,
              lines |-> <<Line("detailed_header", agent.name), Line("new", agent.name)>>]
        ELSE IF "token_details" \notin detailed_info.keys
        THEN \* detailed_info['token_details'] raises KeyError
             [raised |-> TRUE,
              lines |-> <<Line("detailed_header", agent.name),
                          Line("detailed_info", agent.name)>>]
        ELSE [raised |-> FALSE,
              lines |-> <<Line("detailed_header", agent.name),
                          Line("detailed_info", agent.name),
                          Line("detailed", agent.name), Line("new", agent.name)>>]

LogNew ==
    /\ pc = "log_new"
    /\ idx <= Len(changes.new)
    /\ \E outcomes \in LoopOutcomeSeqs, page_loads \in BOOLEAN :
          LET r == LogNewAgent(changes.new[idx], outcomes, page_loads)
          IN  /\ appended' = appended \o r.lines
              /\ pc' = IF r.raised THEN "except" ELSE "log_new"
              /\ idx' = IF r.raised THEN idx ELSE idx + 1
    /\ narrated' = narrated \cup {changes.new[idx].name}
    /\ UNCHANGED <<page_content, current_agents, previous_agents, changes, rating_vars, summary_vars>>

\* the lines of changes["updated"] and changes["removed"]
RestLines(ch) ==
    (IF ch.updated # <<>>
     THEN <<Line("updated_section", "")>>
          \o [i \in 1..Len(ch.updated) |-> Line("updated", ch.updated[i].name)]
     ELSE <<>>)
    \o (IF ch.removed # <<>>
        THEN <<Line("removed_section", "")>>
             \o [i \in 1..Len(ch.removed) |-> Line("removed", ch.removed[i])]
        ELSE <<>>)

\* log_changes after the loop over changes["new"], then its return
LogRest ==
    /\ pc = "log_new"
    /\ idx > Len(changes.new)
    /\ appended' = appended \o RestLines(changes)
    /\ pc' = "update"
    /\ UNCHANGED <<page_content, current_agents, previous_agents, changes, idx,
                   narrated, rating_vars, summary_vars>>

\* the end of a pass: its locals are dead and what it appended is behind it
PassEnds ==
    /\ current_agents' = <<>>
    /\ changes' = NoChanges
    /\ idx' = 0
    /\ appended' = <<>>
    /\ narrated' = {}

\* previous_agents = current_agents, sleep, next pass
Update ==
    /\ pc = "update"
    /\ previous_agents' = current_agents
    /\ pc' = "fetch"
    /\ PassEnds
    /\ UNCHANGED <<page_content, rating_vars, summary_vars>>

\* `except Exception` of the while loop: log the error, sleep, next pass
Except ==
    /\ pc = "except"
    /\ pc' = "fetch"
    /\ PassEnds
    /\ UNCHANGED <<page_content, previous_agents, rating_vars, summary_vars>>

\* monitor_changes has returned or was left by an exception
Exits == {"exit_fetch", "exit_parse", "exit_error", "exit_interrupt"}

\* KeyboardInterrupt: no `except Exception` catches it, the finally clauses
\* run and the main block logs "Monitoring stopped by user"
Interrupt ==
    /\ pc \notin Exits
    /\ pc' = "exit_interrupt"
    /\ PassEnds
    /\ UNCHANGED <<page_content, previous_agents, rating_vars, summary_vars>>

Next ==
    \/ InitialFetchFails
    \/ InitialFetch
    \/ Display
    \/ FetchFails
    \/ FetchOk
    \/ Detect
    \/ LogOpen
    \/ LogNew
    \/ LogRest
    \/ Update
    \/ Except
    \/ Interrupt

Spec == Init /\ [][Next]_vars

(***************************************************************************)
(* detect_agent_changes on its own, over any two snapshots                 *)
(***************************************************************************)
InitDiff ==
    /\ pc = "call"
    /\ page_content = Html
    /\ current_agents \in DiffSnapshots
    /\ previous_agents \in DiffSnapshots
    /\ changes = NoChanges
    /\ idx = 0
    /\ appended = <<>>
    /\ narrated = {}
    /\ agent_data = NoAgent
    /\ result = NoResult
    /\ num_recent = 0
    /\ summary = NoSummary
    /\ status_call = NoStatusCall

DiffCall ==
    /\ pc = "call"
    /\ LET st == detect_agent_changes(current_agents, previous_agents)
       IN  /\ changes' = st.changes
           /\ current_agents' = st.current
           /\ previous_agents' = st.previous
    /\ pc' = "returned"
    /\ UNCHANGED <<page_content, idx, appended, narrated, rating_vars, summary_vars>>

NextDiff == DiffCall

SpecDiff == InitDiff /\ [][NextDiff]_vars

(***************************************************************************)
(* The two ratings of one record: get_token_rating and                     *)
(* analyze_agent_with_ai, over any market cap text, age text and service   *)
(***************************************************************************)
InitRating ==
    /\ pc = "rate"
    /\ page_content = Html
    /\ current_agents = <<>>
    /\ previous_agents = <<>>
    /\ changes = NoChanges
    /\ idx = 0
    /\ appended = <<>>
    /\ narrated = {}
    /\ agent_data \in RatingAgents
    /\ result = NoResult
    /\ num_recent = 0
    /\ summary = NoSummary
    /\ status_call = NoStatusCall

\* get_token_rating, and analyze_agent_with_ai up to its rating
Rate ==
    /\ pc = "rate"
    /\ result' = [result EXCEPT
                     !.market_cap_value = validate_market_cap(agent_data.market_cap),
                     !.age_minutes = get_token_age_minutes(agent_data.time),
                     !.rating = get_token_rating(agent_data.market_cap, agent_data.time),
                     !.ai_rating = AiRating(agent_data)]
    /\ pc' = "narrate"
    /\ UNCHANGED <<loop_vars, agent_data, summary_vars>>

\* analyze_agent_with_ai from its rating on, against any narrative service
Narrate ==
    /\ pc = "narrate"
    /\ \E outcomes \in OutcomeSeqs :
          result' = [result EXCEPT
                        !.ai = Narrative(result.ai_rating, agent_data, outcomes),
                        !.outcomes = outcomes]
    /\ pc' = "rated"
    /\ UNCHANGED <<loop_vars, agent_data, summary_vars>>

NextRating ==
    \/ Rate
    \/ Narrate

SpecRating == InitRating /\ [][NextRating]_vars

(***************************************************************************)
(* analyze_market_summary over any snapshot and window, and                *)
(* get_market_status over any average, percentage and count                *)
(***************************************************************************)
InitSummary ==
    /\ \/ /\ pc = "summarize"
          /\ current_agents \in SummarySnapshots
          /\ num_recent \in RecentLimits
       \/ /\ pc = "status"
          /\ current_agents = <<>>
          /\ num_recent = 0
    /\ page_content = Html
    /\ previous_agents = <<>>
    /\ changes = NoChanges
    /\ idx = 0
    /\ appended = <<>>
    /\ narrated = {}
    /\ agent_data = NoAgent
    /\ result = NoResult
    /\ summary = NoSummary
    /\ status_call = NoStatusCall

Summarize ==
    /\ pc = "summarize"
    /\ summary' = analyze_market_summary(current_agents, num_recent)
    /\ pc' = "summarized"
    /\ UNCHANGED <<loop_vars, rating_vars, num_recent, status_call>>

StatusCall ==
    /\ pc = "status"
    /\ \E avg_thumbs \in StatusAverages, high_potential_percentage \in StatusPercentages,
          new_promising_count \in StatusCounts :
          status_call' =
              [avg_thumbs |-> avg_thumbs,
               high_potential_percentage |-> high_potential_percentage,
               new_promising_count |-> new_promising_count,
               status |-> get_market_status(avg_thumbs, high_potential_percentage,
                                            new_promising_count)]
    /\ pc' = "status_returned"
    /\ UNCHANGED <<loop_vars, rating_vars, num_recent, summary>>

NextSummary ==
    \/ Summarize
    \/ StatusCall

SpecSummary == InitSummary /\ [][NextSummary]_vars

(***************************************************************************)
(* Properties                                                              *)
(***************************************************************************)
Fields == {"name", "symbol", "market_cap", "creator", "time", "description"}

Range(seq) == {seq[i] : i \in 1..Len(seq)}

DiffersInAField(r, q) == \E f \in Fields : r[f] # q[f]

IsNew(r) == r.name \notin Keys(previous_agents)

IsUpdated(r) ==
    /\ r.name \in Keys(previous_agents)
    /\ DiffersInAField(r, Lookup(previous_agents, r.name))

\* C1: detect_agent_changes returns as new the current records whose name
\* is no key of previous, as updated the current records whose name is a
\* key of both and that differ from the previous record in a field, both in
\* the order of current, and as removed the names that are keys of previous
\* and not of current; two snapshots with the same records yield three
\* empty collections.
C1_DiffResult ==
    pc = "returned" =>
        /\ changes.new = SelectSeq(current_agents, IsNew)
        /\ changes.updated = SelectSeq(current_agents, IsUpdated)
        /\ Range(changes.removed) = Keys(previous_agents) \ Keys(current_agents)
        /\ Len(changes.removed) = Cardinality(Range(changes.removed))
        /\ \A i \in 1..Len(changes.removed) : changes.removed[i] \in STRING
        /\ (Range(current_agents) = Range(previous_agents) => changes = NoChanges)

C1_Witness ==
    /\ pc = "returned"
    /\ changes.new # <<>>
    /\ changes.updated # <<>>
    /\ changes.removed # <<>>

\* C2: a call of detect_agent_changes leaves both of its arguments as they
\* were: the current and the previous snapshot after the call equal the
\* snapshots before it.
C2_DiffLeavesArguments ==
    [][pc = "call" =>
          /\ current_agents' = current_agents
          /\ previous_agents' = previous_agents]_vars

C2_Witness ==
    /\ pc = "returned"
    /\ changes.removed # <<>>
    /\ changes.new # <<>>

\* the ordered rules of the claim, each with whether it matches
ClaimedRules(c, a) ==
    <<[matches |-> Ge(c, 50000), rating |-> Hot],
      [matches |-> Ge(c, 10000) /\ a <= 10, rating |-> Hot],
      [matches |-> Ge(c, 7000), rating |-> Good],
      [matches |-> Lt(c, 5000) /\ a > 10, rating |-> Dead],
      [matches |-> Ge(c, 5000) /\ Lt(c, 7000) /\ a <= 10, rating |-> DecentNew],
      [matches |-> Ge(c, 5000) /\ Lt(c, 7000) /\ a > 10, rating |-> Good],
      [matches |-> TRUE, rating |-> Good]>>

FirstMatch(rules) ==
    rules[CHOOSE i \in 1..Len(rules) :
              rules[i].matches /\ \A j \in 1..(i - 1) : ~rules[j].matches].rating

\* the quantities get_token_rating parsed from the record's texts
RatedCap == result.market_cap_value

RatedAge == result.age_minutes

Classified(c, a) == RatedCap = FloatOfInt(c) /\ RatedAge = a

C4_AiRatingIsClassifierRating ==
    (pc = "rated" /\ result.ai_rating.bound) => result.ai_rating.rating = result.rating

\* C5: a pass of the monitoring loop whose fetch returns None leaves the
\* previous snapshot as it was, computes no diff and appends nothing to the
\* updates log, and the loop is back at its fetch.
C5_FailedFetchKeepsPrevious ==
    [][(pc = "fetch" /\ page_content' = None /\ pc' # "exit_interrupt") =>
          /\ previous_agents' = previous_agents
          /\ changes' = changes
          /\ appended' = appended
          /\ narrated' = narrated
          /\ pc' = "fetch"]_vars

C5_Witness ==
    /\ pc = "fetch"
    /\ page_content = None
    /\ previous_agents # <<>>

\* C6: every pass of the monitoring loop that fetched a snapshot and diffed
\* it ends with the previous snapshot replaced by the snapshot of that pass.
C6_PreviousReplacedAfterDiff ==
    [][(pc \in {"log", "log_new", "update", "except"} /\ pc' = "fetch") =>
          previous_agents' = current_agents]_vars

Logged(kind, name) == \E i \in 1..Len(appended) : appended[i] = Line(kind, name)

\* C7: a pass of the monitoring loop that found changes completes, with
\* every updated record and every removed name of its change set logged,
\* whatever happened while one of its records was processed.
C7_FailureContained ==
    (pc \in {"update", "except"} /\ AnyChanges(changes)) =>
        /\ pc = "update"
        /\ \A i \in 1..Len(changes.updated) : Logged("updated", changes.updated[i].name)
        /\ \A i \in 1..Len(changes.removed) : Logged("removed", changes.removed[i])

\* C8: a record whose market cap text is no number makes no rating raise:
\* get_token_rating and analyze_agent_with_ai both rate it with the cap
\* 1000, and analyze_agent_with_ai returns a narrative.
C8_UnparseableCapNeverRaises ==
    (pc = "rated" /\ Raised(ParsedMarketCap(agent_data.market_cap))) =>
        /\ result.rating = RatingChain(FloatOfInt(DefaultMarketCap), RatedAge)
        /\ ~result.ai.raised
        /\ result.ai_rating.bound
        /\ result.ai_rating.rating = AiRatingChain(FloatOfInt(DefaultMarketCap), RatedAge)

\* the attempt whose response holds the glyph g
HasGlyph(o, g) == ~o.raises /\ g \in o.content

\* the attempts before i neither raised nor held the glyph
AllLackBefore(os, g, i) == \A j \in 1..(i - 1) : ~os[j].raises /\ g \notin os[j].content

\* C9: analyze_agent_with_ai calls the narrative service at most 3 times
\* for a record; it stops at the first response holding the rating glyph
\* and returns that response; when the service raises, or all 3 responses
\* lack the glyph, it returns a synthesized narrative; every narrative it
\* returns holds the rating glyph, and a call that reached the service
\* always returns a narrative.
C9_NarrativeRetry ==
    pc = "rated" =>
        LET r == result.ai
            os == result.outcomes
            g == result.ai_rating.rating
        IN  /\ r.calls <= 3
            /\ (~r.raised => g \in r.analysis)
            /\ (r.calls >= 1 => ~r.raised)
            /\ \A i \in 1..3 :
                  (r.calls >= 1 /\ AllLackBefore(os, g, i)) =>
                      /\ (HasGlyph(os[i], g) => r.calls = i /\ r.analysis = os[i].content)
                      /\ (os[i].raises => r.calls = i /\ r.analysis = {g})
            /\ ((r.calls >= 1 /\ AllLackBefore(os, g, 4)) =>
                    r.calls = 3 /\ r.analysis = {g} \cup os[3].content)

C9_Witness ==
    /\ pc = "rated"
    /\ result.ai.calls = 3
    /\ AllLackBefore(result.outcomes, result.ai_rating.rating, 4)
    /\ result.ai_rating.rating \in result.ai.analysis

NewNames(ch) == {ch.new[i].name : i \in 1..Len(ch.new)}

\* C10: in a pass of the monitoring loop log_changes runs if and only if
\* the change set of the pass has a non-empty category; narratives are
\* asked only for the records of new; a pass with an empty change set
\* appends nothing to the updates log.
C10_LoggingIffChanges ==
    /\ pc \in {"log", "log_new", "except"} => AnyChanges(changes)
    /\ (pc \in {"log_new", "update", "except"} /\ AnyChanges(changes)) =>
           (appended # <<>> /\ Head(appended) = Line("header", ""))
    /\ (pc = "update" /\ ~AnyChanges(changes)) => (appended = <<>> /\ narrated = {})
    /\ pc \in {"detect", "log", "log_new", "update", "except"} =>
           narrated \subseteq NewNames(changes)

C10_Witness ==
    /\ pc = "update"
    /\ changes.new = <<>>
    /\ changes.removed # <<>>
    /\ Logged("removed", changes.removed[1])
    /\ narrated = {}

\* C11: monitor_changes ends only through a failed initial fetch or through
\* cancellation: an initial fetch that brought a snapshot always leads into
\* the while loop, and no failure of a pass ends the loop.  A first page
\* without any record is taken for a failed initial fetch here.
C11_EndsOnlyByFetchFailureOrCancel ==
    pc \in Exits => pc \in {"exit_fetch", "exit_parse", "exit_interrupt"}

\* C12: when the first fetch returns None monitor_changes returns at once:
\* no previous snapshot is stored, no diff is computed, nothing is logged
\* and no pass of the while loop runs.
C12_NoInitialSnapshotNoMonitoring ==
    /\ [][(pc = "init" /\ page_content' = None /\ pc' # "exit_interrupt") =>
             /\ pc' = "exit_fetch"
             /\ previous_agents' = <<>>
             /\ changes' = NoChanges
             /\ appended' = <<>>
             /\ narrated' = {}]_vars
    /\ [][pc # "exit_fetch"]_vars

C12_Witness ==
    /\ pc = "exit_fetch"
    /\ page_content = None
    /\ previous_agents = <<>>

\* the summary of an empty snapshot but for its status
EmptyCounts ==
    /\ ~summary.error
    /\ summary.total_agents = 0
    /\ summary.thumbs_up_count = 0
    /\ summary.avg_thumbs.num = 0
    /\ summary.high_potential_count = 0
    /\ summary.high_potential_percentage.num = 0
    /\ summary.new_promising_count = 0
    /\ summary.promising_tokens = <<>>

\* C13 as stated: analyze_market_summary over an empty snapshot reports
\* total 0, positive average 0, high-potential percentage 0, new-promising
\* count 0, an empty promising list and the neutral phrase as market status.
C13_EmptySummaryNeutral ==
    (pc = "summarized" /\ current_agents = <<>>) =>
        (EmptyCounts /\ summary.market_status = <<NEUTRAL>>)

\* C13 amended: analyze_market_summary over an empty snapshot reports total
\* 0, positive average 0, high-potential percentage 0, new-promising count
\* 0, an empty promising list and the COLD phrase alone as market status.
C13_EmptySummaryCold ==
    (pc = "summarized" /\ current_agents = <<>>) =>
        (EmptyCounts /\ summary.market_status = <<COLD>>)

C13_Witness ==
    /\ pc = "summarized"
    /\ current_agents = <<>>
    /\ summary.market_status = <<COLD>>

\* C14: every pass of the while loop that appends to the updates log
\* appends the timestamp header, the new, updated and removed records of
\* its change set, and the market summary of its snapshot.
C14_PassLogsSummary ==
    (pc \in {"update", "except"} /\ appended # <<>>) =>
        /\ Head(appended) = Line("header", "")
        /\ \A i \in 1..Len(changes.new) : Logged("new", changes.new[i].name)
        /\ \A i \in 1..Len(changes.updated) : Logged("updated", changes.updated[i].name)
        /\ \A i \in 1..Len(changes.removed) : Logged("removed", changes.removed[i])
        /\ Logged("summary", "")

\* the text of the rated record trimmed and lowercased, and its part before
\* a k suffix
CleanCap == lower(strip(agent_data.market_cap))

CapNumberText ==
    IF endswith(CleanCap, <<"k">>) THEN SubSeq(CleanCap, 1, Len(CleanCap) - 1)
    ELSE CleanCap

CapIs(text, n) == agent_data.market_cap = text => RatedCap = FloatOfInt(n)

AgeIs(text, n) == agent_data.time = text => RatedAge = n

\* the text of the rated record is <n> followed by one of the unit phrases
LeadsUnit(n, phrases) == \E u \in phrases : agent_data.time = n \o <<" ">> \o u

\* the leading integers of the age texts
LeadingIntegers ==
    {<<"1">>, <<"2">>, <<"3">>, <<"5">>, <<"1", "0">>, <<"1", "1">>, <<"2", "0">>,
     <<"5", "0">>, <<"9", "9", "9", "9">>}

\* the age text has one of the shapes the mapping names
NamedShape ==
    \/ agent_data.time \in {T_a_minute_ago, T_an_hour_ago, T_a_day_ago}
    \/ \E n \in LeadingIntegers :
          LeadsUnit(n, {T_minute_ago, T_minutes_ago, T_hour_ago, T_hours_ago,
                        T_day \o <<" ">> \o T_ago, T_days \o <<" ">> \o T_ago})

\* C16: get_token_age_minutes maps "a minute ago" to 1, "an hour ago" to
\* 60, "a day ago" to 1440, "<n> minute(s) ago" to n, "<n> hour(s) ago" to
\* 60*n and "<n> day(s) ..." to 1440*n for every leading integer n, and
\* every other text to 1440, also a unit phrase whose leading token is no
\* integer; it never raises.
C16_AgeParsing ==
    pc = "narrate" =>
        /\ RatedAge \in Int
        /\ AgeIs(T_a_minute_ago, 1)
        /\ AgeIs(T_an_hour_ago, 60)
        /\ AgeIs(T_a_day_ago, 1440)
        /\ AgeIs(Age_3_days_ago, 4320)
        /\ AgeIs(Age_weird_text, 1440)
        /\ AgeIs(Age_few_minutes_ago, 1440)
        /\ \A n \in LeadingIntegers :
              /\ LeadsUnit(n, {T_minute_ago, T_minutes_ago}) => RatedAge = DigitsToInt(n)
              /\ LeadsUnit(n, {T_hour_ago, T_hours_ago}) => RatedAge = 60 * DigitsToInt(n)
              /\ LeadsUnit(n, {T_day \o <<" ">> \o T_ago, T_days \o <<" ">> \o T_ago}) =>
                     RatedAge = 1440 * DigitsToInt(n)
        /\ ~NamedShape => RatedAge = 1440

C16_Witness ==
    /\ pc = "narrate"
    /\ agent_data.time = Age_few_minutes_ago
    /\ RatedAge = 1440

\* the smaller of two numbers
Min(a, b) == IF a < b THEN a ELSE b

\* the records analyze_market_summary counts: the num_recent first of the
\* snapshot sorted by age text
Window == Take(sorted_by_time(current_agents), num_recent)

RatedIn(agent, ratings) == get_token_rating(agent.market_cap, agent.time) \in ratings

CountIn(ratings) == Cardinality({i \in 1..Len(Window) : RatedIn(Window[i], ratings)})

IsPositive(agent) == RatedIn(agent, {Hot, Good, DecentNew})

\* C17: in analyze_market_summary, over the window of min(num_recent,
\* |snapshot|) records, the positive counter is the number of window
\* records rated Hot, Good or Decent-New, the high-potential counter the
\* number rated Hot or Good, and the promising list holds exactly the
\* records counted as positive; so high-potential <= positive = length of
\* the promising list <= total.
C17_SummaryCounters ==
    pc = "summarized" =>
        /\ ~summary.error
        /\ summary.total_agents = Min(num_recent, Len(current_agents))
        /\ summary.total_agents = Len(Window)
        /\ summary.thumbs_up_count = CountIn({Hot, Good, DecentNew})
        /\ summary.high_potential_count = CountIn({Hot, Good})
        /\ NamesOf(summary.promising_tokens) = NamesOf(SelectSeq(Window, IsPositive))
        /\ summary.high_potential_count <= summary.thumbs_up_count
        /\ summary.thumbs_up_count = Len(summary.promising_tokens)
        /\ Len(summary.promising_tokens) <= summary.total_agents

C17_Witness ==
    /\ pc = "summarized"
    /\ summary.high_potential_count = 0
    /\ summary.thumbs_up_count = 1
    /\ summary.total_agents = 2

Phrases(status) == {status[i] : i \in 1..Len(status)}

\* the threshold checks of the four phrases that are not the neutral one
HotCheck(a, p) == GtTenths(a, 15) /\ Gt(p, 50)

GrowingCheck(c) == c >= 2

ActiveCheck(a, p) == GtTenths(a, 5) \/ Gt(p, 30)

ColdCheck(a, p) == LtTenths(a, 2) /\ Lt(p, 20)

\* C18: the status of get_market_status is never empty; each phrase but
\* the neutral one is present exactly when its own check holds, whatever
\* the other checks say; the neutral phrase is present if and only if no
\* check holds, and then it is the only phrase.
C18_StatusPhrases ==
    pc = "status_returned" =>
        LET a == status_call.avg_thumbs
            p == status_call.high_potential_percentage
            c == status_call.new_promising_count
            ph == Phrases(status_call.status)
        IN  /\ status_call.status # <<>>
            /\ Len(status_call.status) = Cardinality(ph)
            /\ ph \subseteq {HOT, GROWING, ACTIVE, COLD, NEUTRAL}
            /\ HOT \in ph <=> HotCheck(a, p)
            /\ GROWING \in ph <=> GrowingCheck(c)
            /\ ACTIVE \in ph <=> ActiveCheck(a, p)
            /\ COLD \in ph <=> ColdCheck(a, p)
            /\ NEUTRAL \in ph <=>
                   ~(HotCheck(a, p) \/ GrowingCheck(c) \/ ActiveCheck(a, p) \/ ColdCheck(a, p))
            /\ NEUTRAL \in ph => status_call.status = <<NEUTRAL>>

C18_Witness ==
    /\ pc = "status_returned"
    /\ status_call.status = <<HOT, GROWING, ACTIVE>>

\* the window records whose age text holds "minutes ago" and whose parsed
\* market cap is at least the threshold
NewAtLeast(threshold) ==
    Cardinality({i \in 1..Len(Window) :
                    /\ Contains(Window[i].time, T_minutes_ago)
                    /\ Ge(validate_market_cap(Window[i].market_cap), threshold)})

TopIsRanked ==
    /\ Len(summary.top) = Min(TopLimit, Len(current_agents))
    /\ \A i \in 1..Len(summary.top) :
          /\ summary.top[i].name \in Keys(current_agents)
          /\ Lookup(current_agents, summary.top[i].name).market_cap = summary.top[i].market_cap
          /\ Lookup(current_agents, summary.top[i].name).time = summary.top[i].time
    /\ \A i, j \in 1..Len(summary.top) :
          /\ i < j => ~FloatLess(summary.top[i].market_cap_value,
                                 summary.top[j].market_cap_value)
          /\ summary.top[i].name = summary.top[j].name => i = j
    /\ \A k \in 1..Len(current_agents) :
          current_agents[k].name \notin Keys(summary.top) =>
              \A i \in 1..Len(summary.top) :
                  ~FloatLess(summary.top[i].market_cap_value,
                             validate_market_cap(current_agents[k].market_cap))

\* C20 as stated: for each record of the top-10-by-market-cap list, ranked
\* over all records of the snapshot, the displayed rating is the compound
\* very-new-good glyph when the record's age is <= 3 minutes and its cap is
\* >= 7000, and the rating of get_token_rating in every other case.
C20_TopRatingCompoundFrom7000 ==
    pc = "summarized" =>
        /\ TopIsRanked
        /\ \A i \in 1..Len(summary.top) :
              LET t == summary.top[i]
              IN  IF get_token_age_minutes(t.time) <= 3 /\ Ge(t.market_cap_value, 7000)
                  THEN t.rating = NewGood
                  ELSE t.rating = get_token_rating(t.market_cap, t.time)

\* C20 amended: for each record of the top-10-by-market-cap list, ranked
\* over all records of the snapshot, the displayed rating is the compound
\* very-new-good glyph when the record's age is <= 3 minutes and its cap is
\* >= 7000 and < 10000, and the rating of get_token_rating in every other
\* case.
C20_TopRatingCompoundBelow10000 ==
    pc = "summarized" =>
        /\ TopIsRanked
        /\ \A i \in 1..Len(summary.top) :
              LET t == summary.top[i]
              IN  IF /\ get_token_age_minutes(t.time) <= 3
                     /\ Ge(t.market_cap_value, 7000)
                     /\ Lt(t.market_cap_value, 10000)
                  THEN t.rating = NewGood
                  ELSE t.rating = get_token_rating(t.market_cap, t.time)

C20_Witness ==
    /\ pc = "summarized"
    /\ num_recent < Len(current_agents)
    /\ Len(current_agents) > TopLimit
    /\ Len(summary.top) = TopLimit
    /\ \E i \in 1..Len(summary.top) : summary.top[i].rating = NewGood
    /\ \E i \in 1..Len(summary.top) :
          /\ summary.top[i].rating = Hot
          /\ get_token_age_minutes(summary.top[i].time) <= 3

\* C21: in every summary of analyze_market_summary the average positive
\* rating per record is the positive counter over the total, with the
\* counter at most the total, so it lies between 0 and 1; the HOT phrase,
\* which needs an average above 1.5, is in no market status the summary
\* holds, whatever the snapshot and the limit of recent records, even when
\* more than half of the records are of high potential.
C21_SummaryNeverHot ==
    pc = "summarized" =>
        /\ ~summary.error
        /\ summary.thumbs_up_count <= summary.total_agents
        /\ summary.avg_thumbs = Average(summary.thumbs_up_count, summary.total_agents)
        /\ summary.avg_thumbs.den > 0
        /\ 0 <= summary.avg_thumbs.num
        /\ summary.avg_thumbs.num <= summary.avg_thumbs.den
        /\ ~GtTenths(summary.avg_thumbs, 15)
        /\ HOT \notin Phrases(summary.market_status)

C21_Witness ==
    /\ pc = "summarized"
    /\ summary.total_agents = 2
    /\ summary.thumbs_up_count = summary.total_agents
    /\ summary.avg_thumbs.num = summary.avg_thumbs.den
    /\ Gt(summary.high_potential_percentage, 50)
    /\ HOT \notin Phrases(summary.market_status)
    /\ ACTIVE \in Phrases(summary.market_status)

====
